---------------------------- MODULE Spec2Model ----------------------------
(***************************************************************************)
(* Red-flag Lambda (translation/terraform/products/redflag): the           *)
(* translation orchestration of lambda_function.lambda_handler and the     *)
(* rule matching of rd_utils.flag_sentences.                               *)
(*                                                                         *)
(* Texts are sequences of tokens.  A token stands for one unit of text:    *)
(* a word, a speaker label with its colon ("CUSTOMER:"), a timestamp       *)
(* ("TS" for "(10:00:00)"), a sentence-ending period, or an explicit       *)
(* whitespace character ("FENCE" is a code fence of three backquotes).     *)
(* Neighbouring non-whitespace tokens are separated by one blank in the    *)
(* text they stand for.  len() counts tokens.                              *)
(* The value None and a non-string value are the reserved one-token        *)
(* sequences None and NonStr.                                              *)
(***************************************************************************)
EXTENDS Integers, Sequences, FiniteSets, TLC

VARIABLES
    pc,                       \* position of lambda_handler
    sentences,                \* event['IncrementalTranscript']
    source_language,          \* event['Language']
    channel,                  \* event['Channel']
    attempt,                  \* loop variable of "for attempt in range(1,3)"
    chunks,                   \* list of chunks of the current attempt
    futures,                  \* the futures executor.map created for the current batch
    completed,                \* indices of the current batch in completion order
    translated_chunks,        \* local list after "Remove failed translations"
    sentences_to_flag,        \* local: the text to apply the red-words logic to
    translation_service_used, \* local tracker, written by the workers too (nonlocal)
    flagged,                  \* local
    sentence_to_rule,         \* local
    rd_total_time,            \* "unbound" until a branch assigns it
    output,                   \* dict shared with the single-shot thread
    thread,                   \* state of the single-shot thread
    timed_out,                \* is_alive() was observed True after join(timeout=50)
    fallback,                 \* the single-shot call of translate_with_amazon_translate
    calls,                    \* every translation call started: [svc, src, batch, res]
    matched_text,             \* the argument rd.flag_sentences received
    logs,                     \* the record put to S3
    response,                 \* what lambda_handler returned
    current_rule,             \* the rule one check of a sentence is called with
    rule_result               \* what check_rules and check_rules_any_order returned

vars == <<pc, sentences, source_language, channel, attempt, chunks, futures,
          completed, translated_chunks, sentences_to_flag,
          translation_service_used, flagged, sentence_to_rule, rd_total_time,
          output, thread, timed_out, fallback, calls, matched_text, logs, response,
          current_rule, rule_result>>

---------------------------------------------------------------------------
(* Bounds of the model *)

\* longest transcript handed to flag_sentences in SpecFlag
MaxFlagLen == 4

\* longest sentence handed to check_rules and check_rules_any_order in SpecRules
MaxRuleLen == 4

\* longest text handed to the chunker in SpecChunk
MaxChunkLen == 5

---------------------------------------------------------------------------
(* Values *)

None == <<"None">>
NonStr == <<"NonStr">>

Whitespace == {" ", "\n"}

\* Python truthiness of a str-or-None value
Truthy(t) == t # None /\ t # <<>>

RECURSIVE lstrip(_)
lstrip(s) == IF s # <<>> /\ Head(s) \in Whitespace THEN lstrip(Tail(s)) ELSE s

RECURSIVE rstrip(_)
rstrip(s) ==
    IF s # <<>> /\ s[Len(s)] \in Whitespace THEN rstrip(SubSeq(s, 1, Len(s) - 1)) ELSE s

strip(s) == rstrip(lstrip(s))

RECURSIVE Flatten(_)
Flatten(ss) == IF ss = <<>> THEN <<>> ELSE Head(ss) \o Flatten(Tail(ss))

\* " ".join(list)
RECURSIVE JoinSpace(_)
JoinSpace(ss) ==
    IF ss = <<>> THEN <<>>
    ELSE IF Len(ss) = 1 THEN ss[1]
    ELSE ss[1] \o <<" ">> \o JoinSpace(Tail(ss))

\* all sequences over S of length at most n
SeqsUpTo(S, n) == UNION {[1..k -> S] : k \in 0..n}

---------------------------------------------------------------------------
(* rd_utils.py: the rule engine *)

RoleLabels == {"CUSTOMER:", "AGENT:", "BOT:", "CUSTOMER:@"}

\* the sender a label token names
RoleOf(tok) ==
    CASE tok = "AGENT:" -> "AGENT"
      [] tok = "BOT:" -> "BOT"
      [] OTHER -> "CUSTOMER"

\* event['CustomerName'] and event['AgentName'] as they label a turn
name_mapping == ("John:" :> "CUSTOMER:") @@ ("Ann:" :> "AGENT:")

\* the rules rd_config.load_rules() returned; a regex is a literal phrase
rules ==
    << [keywords |-> <<"addicted", "betting">>, max_distance |-> 5,
        flexible_order |-> FALSE, regex_patterns |-> <<>>,
        regex_exclusion_patterns |-> <<>>],
       [keywords |-> <<"bet", "addicted">>, max_distance |-> 2,
        flexible_order |-> TRUE, regex_patterns |-> << <<"addicted">> >>,
        regex_exclusion_patterns |-> << <<"not", "addicted">> >>] >>

\* before any rule is checked: no rule and no result
NoRule ==
    [keywords |-> <<>>, max_distance |-> 0, flexible_order |-> FALSE,
     regex_patterns |-> <<>>, regex_exclusion_patterns |-> <<>>]

NoResult ==
    [strict |-> [raised |-> FALSE, result |-> FALSE, logic |-> "none"],
     flexible |-> [raised |-> FALSE, result |-> FALSE, logic |-> "none"]]

\* str.lower() of one word of the vocabulary
Lower(w) == IF w = "I" THEN "i" ELSE w

\* re.findall(r'\b\w+\b', sentence.lower())
WordsOf(tok) ==
    CASE tok = "CUSTOMER:" -> <<"customer">>
      [] tok = "CUSTOMER:@" -> <<"customer">>
      [] tok = "AGENT:" -> <<"agent">>
      [] tok = "BOT:" -> <<"bot">>
      [] tok = "John:" -> <<"john">>
      [] tok = "Ann:" -> <<"ann">>
      [] tok = "Web User" -> <<"web", "user">>
      [] tok = "TS" -> <<"10", "00", "01">>
      [] tok \in Whitespace \cup {".", ":", "FENCE"} -> <<>>
      [] OTHER -> <<Lower(tok)>>

RECURSIVE findall_words(_)
findall_words(sentence) ==
    IF sentence = <<>> THEN <<>>
    ELSE WordsOf(Head(sentence)) \o findall_words(Tail(sentence))

\* lemmatizer.lemmatize(word.lower(), pos) on the vocabulary
Lemma(w) ==
    CASE w = "bets" -> "bet"
      [] w = "addictions" -> "addiction"
      [] OTHER -> Lower(w)

lemmatize_words(words) == [i \in 1..Len(words) |-> Lemma(words[i])]

\* re.search of one literal pattern in the text
Search(pattern, text) ==
    \E i \in 1..(Len(text) - Len(pattern) + 1) :
        SubSeq(text, i, i + Len(pattern) - 1) = pattern

match_with_regex(full_text, regex_patterns) ==
    \E k \in 1..Len(regex_patterns) : Search(regex_patterns[k], full_text)

\* positions of a keyword in normalized_words (1-based here, 0-based in Python)
Positions(normalized_words, keyword) ==
    {i \in 1..Len(normalized_words) : normalized_words[i] = keyword}

SetMax(S) == CHOOSE x \in S : \A y \in S : y <= x
SetMin(S) == CHOOSE x \in S : \A y \in S : x <= y

\* the ascending list of a set of numbers
RECURSIVE SortedSeq(_)
SortedSeq(S) ==
    IF S = {} THEN <<>> ELSE <<SetMin(S)>> \o SortedSeq(S \ {SetMin(S)})

\* a regex stage that never decides
RegexStageSkipped(sentence, regex_patterns, regex_exclusion_patterns) == "none"

\* a regex stage that does not read the exclusion patterns
RegexStageInclusionOnly(sentence, regex_patterns, regex_exclusion_patterns) ==
    LET full_text == [i \in 1..Len(sentence) |-> Lower(sentence[i])]
    IN  IF regex_patterns # <<>> /\ match_with_regex(full_text, regex_patterns)
        THEN "matched"
        ELSE "none"

\* lines 100-112 and 179-191: the regex stage both checks share, on the raw
\* sentence in lower case; "none" when the keyword logic decides
RegexStage(sentence, regex_patterns, regex_exclusion_patterns) ==
    LET full_text == [i \in 1..Len(sentence) |-> Lower(sentence[i])]
    IN  IF regex_patterns # <<>> /\ match_with_regex(full_text, regex_patterns)
        THEN IF regex_exclusion_patterns # <<>>
                /\ match_with_regex(full_text, regex_exclusion_patterns)
             THEN "excluded"
             ELSE "matched"
        ELSE "none"

check_rules(normalized_words, sentence, keywords, max_distance, regex_patterns, regex_exclusion_patterns) ==
    LET stage == RegexStage(sentence, regex_patterns, regex_exclusion_patterns)
        kw == [i \in 1..Len(keywords) |-> Lower(keywords[i])]
        positions == [i \in 1..Len(kw) |-> Positions(normalized_words, kw[i])]
        n == Len(normalized_words)
    IN  IF stage = "excluded" THEN [raised |-> FALSE, result |-> FALSE, logic |-> "regex"]
        ELSE IF stage = "matched" THEN [raised |-> FALSE, result |-> TRUE, logic |-> "regex"]
        ELSE IF \E i \in 1..Len(kw) : positions[i] = {}
        THEN [raised |-> FALSE, result |-> FALSE, logic |-> "strict_order"]
        ELSE IF kw = <<>>
        \* product() yields the empty tuple and max(()) raises ValueError
        THEN [raised |-> TRUE, result |-> FALSE, logic |-> "strict_order"]
        ELSE [raised |-> FALSE,
              result |-> \E c \in [1..Len(kw) -> 1..n] :
                            /\ \A i \in 1..Len(kw) : c[i] \in positions[i]
                            /\ \A i \in 1..(Len(kw) - 1) : c[i] <= c[i + 1]
                            /\ SetMax({c[i] : i \in 1..Len(kw)})
                                 - SetMin({c[i] : i \in 1..Len(kw)}) <= max_distance,
              logic |-> "strict_order"]

\* the flexible check done as the strict one
check_rules_in_order_only(normalized_words, sentence, keywords, max_distance, regex_patterns, regex_exclusion_patterns) ==
    check_rules(normalized_words, sentence, keywords, max_distance,
                regex_patterns, regex_exclusion_patterns)

\* a flexible check whose window holds one entry more than there are keywords
check_rules_any_order_wide_window(normalized_words, sentence, keywords, max_distance, regex_patterns, regex_exclusion_patterns) ==
    LET stage == RegexStage(sentence, regex_patterns, regex_exclusion_patterns)
        kw == [i \in 1..Len(keywords) |-> Lower(keywords[i])]
        positions == [i \in 1..Len(kw) |-> Positions(normalized_words, kw[i])]
        all_positions == SortedSeq(UNION {positions[i] : i \in 1..Len(kw)})
    IN  IF stage = "excluded" THEN [raised |-> FALSE, result |-> FALSE, logic |-> "regex"]
        ELSE IF stage = "matched" THEN [raised |-> FALSE, result |-> TRUE, logic |-> "regex"]
        ELSE [raised |-> FALSE,
              result |-> /\ \A i \in 1..Len(kw) : positions[i] # {}
                         /\ \E i \in 1..(Len(all_positions) - Len(kw)) :
                               all_positions[i + Len(kw)] - all_positions[i]
                                   <= max_distance,
              logic |-> "flexible_order"]

check_rules_any_order(normalized_words, sentence, keywords, max_distance, regex_patterns, regex_exclusion_patterns) ==
    LET stage == RegexStage(sentence, regex_patterns, regex_exclusion_patterns)
        kw == [i \in 1..Len(keywords) |-> Lower(keywords[i])]
        positions == [i \in 1..Len(kw) |-> Positions(normalized_words, kw[i])]
        all_positions == SortedSeq(UNION {positions[i] : i \in 1..Len(kw)})
    IN  IF stage = "excluded" THEN [raised |-> FALSE, result |-> FALSE, logic |-> "regex"]
        ELSE IF stage = "matched" THEN [raised |-> FALSE, result |-> TRUE, logic |-> "regex"]
        ELSE IF \E i \in 1..Len(kw) : positions[i] = {}
        THEN [raised |-> FALSE, result |-> FALSE, logic |-> "flexible_order"]
        ELSE IF kw = <<>> /\ all_positions = <<>>
        \* range(1) reads all_positions[-1] of an empty list: IndexError
        THEN [raised |-> TRUE, result |-> FALSE, logic |-> "flexible_order"]
        ELSE [raised |-> FALSE,
              result |-> \E i \in 1..(Len(all_positions) - Len(kw) + 1) :
                            all_positions[i + Len(kw) - 1] - all_positions[i]
                                <= max_distance,
              logic |-> "flexible_order"]

\* lines 225-239: every name of the mapping becomes its placeholder
ReplaceNames(transcript, mapping) ==
    [i \in 1..Len(transcript) |->
        IF transcript[i] \in DOMAIN mapping THEN mapping[transcript[i]]
        ELSE transcript[i]]

\* lines 241-252: "AGENT" is removed unless a timestamp precedes it; the colon stays
RemoveUnlessTimestamped(transcript) ==
    [i \in 1..Len(transcript) |->
        IF transcript[i] = "AGENT:" /\ (i = 1 \/ transcript[i - 1] # "TS")
        THEN ":" ELSE transcript[i]]

replace_names_with_placeholders(transcript, mapping) ==
    RemoveUnlessTimestamped(ReplaceNames(transcript, mapping))

\* the token before position i that is not whitespace, "" when there is none
RECURSIVE PrevToken(_, _)
PrevToken(t, i) ==
    IF i <= 1 THEN ""
    ELSE IF t[i - 1] \in Whitespace THEN PrevToken(t, i - 1)
    ELSE t[i - 1]

\* a period goes before CUSTOMER, BOT or AGENT unless text ends in punctuation there
RECURSIVE PreprocessFrom(_, _)
PreprocessFrom(t, i) ==
    IF i > Len(t) THEN <<>>
    ELSE (IF /\ t[i] \in {"CUSTOMER:", "AGENT:", "BOT:", "CUSTOMER:@"}
             /\ PrevToken(t, i) \notin {"", "."}
          THEN <<".", t[i]>> ELSE <<t[i]>>) \o PreprocessFrom(t, i + 1)

preprocess_transcript(transcript) == strip(PreprocessFrom(transcript, 1))

\* the first label position after i, Len + 1 when there is none
RECURSIVE NextLabel(_, _)
NextLabel(t, i) ==
    IF i >= Len(t) THEN Len(t) + 1
    ELSE IF t[i + 1] \in RoleLabels THEN i + 1
    ELSE NextLabel(t, i + 1)

RECURSIVE ParseFrom(_, _)
ParseFrom(t, i) ==
    IF i > Len(t) THEN <<>>
    ELSE IF t[i] \in RoleLabels
    THEN << [sender |-> RoleOf(t[i]),
             message |-> strip(SubSeq(t, i + 1, NextLabel(t, i) - 1))] >>
         \o ParseFrom(t, NextLabel(t, i))
    ELSE ParseFrom(t, NextLabel(t, i))

parse_transcript(transcript) == ParseFrom(transcript, 1)

\* nltk sent_tokenize: a sentence ends with its period
RECURSIVE SentFrom(_, _, _)
SentFrom(t, i, cur) ==
    IF i > Len(t) THEN (IF strip(cur) = <<>> THEN <<>> ELSE <<strip(cur)>>)
    ELSE IF t[i] = "."
    THEN (IF strip(cur) = <<>> THEN <<>> ELSE <<strip(cur) \o <<".">> >>)
         \o SentFrom(t, i + 1, <<>>)
    ELSE SentFrom(t, i + 1, cur \o <<t[i]>>)

sent_tokenize(message) == SentFrom(message, 1, <<>>)

\* a transcript that is always parsed by its labels
NeverUnlabeled(processed_transcript) == FALSE

\* line 354: the transcript is taken whole as one customer message
Unlabeled(processed_transcript) ==
    \/ ~ \E i \in 1..Len(processed_transcript) :
            processed_transcript[i] \in {"CUSTOMER:", "CUSTOMER:@"}
    \/ \E i \in 1..Len(processed_transcript) : processed_transcript[i] = "CUSTOMER:@"
    \/ \E i \in 1..Len(processed_transcript) : processed_transcript[i] = "Web User"

\* lines 349-355
Messages(text, mapping) ==
    LET processed_transcript ==
            preprocess_transcript(replace_names_with_placeholders(text, mapping))
    IN  IF Unlabeled(processed_transcript)
        THEN << [sender |-> "CUSTOMER", message |-> text] >>
        ELSE parse_transcript(processed_transcript)

\* lines 358-362: the sentences of the messages of the customer
RECURSIVE CustomerSentences(_)
CustomerSentences(messages) ==
    IF messages = <<>> THEN <<>>
    ELSE (IF Head(messages).sender = "CUSTOMER"
          THEN sent_tokenize(Head(messages).message) ELSE <<>>)
         \o CustomerSentences(Tail(messages))

\* lines 369-378: one rule on one sentence
Evaluate(sentence, rule) ==
    LET normalized_words == lemmatize_words(findall_words(sentence))
    IN  IF rule.flexible_order
        THEN check_rules_any_order(normalized_words, sentence, rule.keywords,
                 rule.max_distance, rule.regex_patterns, rule.regex_exclusion_patterns)
        ELSE check_rules(normalized_words, sentence, rule.keywords,
                 rule.max_distance, rule.regex_patterns, rule.regex_exclusion_patterns)

\* sorted(list(keywords)): the words of the rules in alphabetical order
KeywordOrder == <<"addicted", "bet", "betting">>

SortedKeywords(S) == SelectSeq(KeywordOrder, LAMBDA w : w \in S)

\* every occurrence kept, as a list of matches would
KeepRepeated(s, seen) == s

\* the first occurrence of each element, in order (dict insertion order)
RECURSIVE Distinct(_, _)
Distinct(s, seen) ==
    IF s = <<>> THEN <<>>
    ELSE IF Head(s) \in seen THEN Distinct(Tail(s), seen)
    ELSE <<Head(s)>> \o Distinct(Tail(s), seen \cup {Head(s)})

flag_sentences(text, rs, mapping) ==
    LET all_sentences == CustomerSentences(Messages(text, mapping))
        Matches(s) == {k \in 1..Len(rs) : Evaluate(s, rs[k]).result}
        raised == \E i \in 1..Len(all_sentences), k \in 1..Len(rs) :
                      Evaluate(all_sentences[i], rs[k]).raised
        flagged_sentences ==
            Distinct(SelectSeq(all_sentences, LAMBDA s : Matches(s) # {}), {})
    IN  [raised |-> raised,
         flagged |-> flagged_sentences # <<>>,
         sentence_to_rule |->
            [i \in 1..Len(flagged_sentences) |->
                [sentence |-> flagged_sentences[i],
                 keywords |-> SortedKeywords(UNION {
                     {rs[k].keywords[j] : j \in 1..Len(rs[k].keywords)} :
                        k \in Matches(flagged_sentences[i])})]]]

---------------------------------------------------------------------------
(* lambda_function.py: configuration and the event *)

\* rd_config.ini [chunking], scaled to token counts
chunking_length_threshold == 4
chunking_length_threshold_el == 2
chunking_length_threshold_pt == 3
split_threshold == 2
max_workers == 2
\* the window "chunking_length_threshold + 500" of the marker search, scaled
marker_window == 1

markers == {"CUSTOMER:", "CUSTOMER NAME:", "AGENT:", "AGENT NAME:", "BOT:"}

redwords_to_flag == {"ludópata", "ludopata", "enganchado"}

Languages == {"English", "German", "Greek", "Brazilian Portuguese", "Spanish"}

Channels == {"chat", "Chat", "voice"}

\* tu.get_language_code
get_language_code(language) ==
    CASE language = "English" -> "en"
      [] language = "German" -> "de"
      [] language = "Greek" -> "el"
      [] language = "Brazilian Portuguese" -> "pt"
      [] language = "Spanish" -> "es"
      [] OTHER -> "None"

\* str.lower() of a language or channel name
LowerName(name) ==
    CASE name = "English" -> "english"
      [] name = "German" -> "german"
      [] name = "Greek" -> "greek"
      [] name = "Brazilian Portuguese" -> "brazilian portuguese"
      [] name = "Spanish" -> "spanish"
      [] name = "Chat" -> "chat"
      [] OTHER -> name

\* the transcripts an event carries
Transcripts ==
    { <<>>,
      <<"CUSTOMER:", "addicted", "betting">>,
      <<"CUSTOMER:", "ludopata">>,
      <<"TS", "AGENT:", "addicted", "betting">>,
      <<"CUSTOMER:", "enganchado", "AGENT:", "hola", "CUSTOMER:", "si">>,
      <<"hola", "si", "\n", "\n">> }

\* what a translation backend can answer to one call
Raised == <<"Raised">>
Placeholder == <<"FENCE", "\n", "\n", "FENCE">>
Refusal == <<"REFUSAL", ".">>
GoodTexts ==
    { <<"CUSTOMER:", "addicted", "betting">>,
      <<"AGENT:", "ok">>,
      <<"CUSTOMER:", "I", "am", "addicted">> }
ChunkReplies == {Raised, <<>>} \cup GoodTexts
GenerativeReplies == {Raised, NonStr, <<>>, Placeholder, Refusal, <<"ok">>} \cup GoodTexts
DeterministicReplies == {Raised, <<>>} \cup GoodTexts

---------------------------------------------------------------------------
(* lambda_function.py: the pure parts of lambda_handler *)

\* line 147, misread as a comparison without lower()
IsEnglishCaseSensitive(language) == language \in {"english", "en"}

\* line 147
IsEnglish(language) == LowerName(language) \in {"english", "en"}

\* a handler that runs the chat logic on every channel
AnyChannel(ch) == TRUE

\* line 137
IsChat(ch) == LowerName(ch) = "chat"

\* lines 156-158
NeedsChunking(text, code) ==
    \/ Len(text) >= chunking_length_threshold
    \/ (code = "el" /\ Len(text) > chunking_length_threshold_el)
    \/ (code = "pt" /\ Len(text) > chunking_length_threshold_pt)

\* lines 170-173: the largest rfind(marker, 0, threshold + window), 0-based, or -1
ClosestIndex(text) ==
    LET found == {i \in 0..(Len(text) - 1) :
                     /\ text[i + 1] \in markers
                     /\ i + 1 <= chunking_length_threshold + marker_window}
    IN  IF found = {} THEN -1 ELSE SetMax(found)

\* text[a:b] of Python, 0-based and clipped
Slice(text, a, b) ==
    SubSeq(text, (IF a < Len(text) THEN a ELSE Len(text)) + 1,
                 IF b < Len(text) THEN b ELSE Len(text))

\* lines 183-192: [chunk[i : i + n] for i in range(0, len(chunk), n)] or [chunk]
RECURSIVE SlicesFrom(_, _, _)
SlicesFrom(chunk, i, n) ==
    IF i >= Len(chunk) THEN <<>>
    ELSE <<Slice(chunk, i, i + n)>> \o SlicesFrom(chunk, i + n, n)

\* a first split that is never split again
UnsplitChunk(chunk) == <<chunk>>

SecondaryChunks(chunk) ==
    IF Len(chunk) > split_threshold THEN SlicesFrom(chunk, 0, split_threshold)
    ELSE <<chunk>>

\* a split that leaves the boundary marker out of the second chunk
RawChunksAfterMarker(text) ==
    LET closest_index == ClosestIndex(text)
        split_index == IF closest_index # -1 THEN closest_index
                       ELSE chunking_length_threshold
    IN  SecondaryChunks(Slice(text, 0, split_index))
        \o SecondaryChunks(Slice(text, split_index + 1, Len(text)))

\* lines 165-195, before the empty chunks are dropped
RawChunks(text) ==
    LET closest_index == ClosestIndex(text)
        split_index == IF closest_index # -1 THEN closest_index
                       ELSE chunking_length_threshold
    IN  SecondaryChunks(Slice(text, 0, split_index))
        \o SecondaryChunks(Slice(text, split_index, Len(text)))

\* lines 165-197
MakeChunks(text) == SelectSeq(RawChunks(text), LAMBDA c : strip(c) # <<>>)

\* the service translate_chunk calls for a language code (lines 203, 215)
ChunkService(code) == IF code = "el" THEN "Amazon Translate" ELSE "Mistral LLM"

\* the generative backend of the single-shot path (lines 285, 342)
SingleShotService(code) == IF code = "el" THEN "Amazon Titan" ELSE "Mistral LLM"

\* lines 240-241: the futures of one executor.map over the chunks
Submit(chs, svc) ==
    [i \in 1..Len(chs) |-> [st |-> "pending", res |-> None, svc |-> svc]]

\* a fallback that re-translates only the chunks that failed
SubmitFallbackFailedOnly(chs, futs) ==
    [i \in 1..Len(chs) |->
        IF Truthy(futs[i].res) THEN futs[i]
        ELSE [st |-> "pending", res |-> None, svc |-> "Amazon Translate"]]

\* lines 267-268: every chunk goes to translate_with_amazon_translate
SubmitFallback(chs, futs) == Submit(chs, "Amazon Translate")

\* results taken as the calls complete
MapResultsAsCompleted(futs, order) == [k \in 1..Len(order) |-> futs[order[k]].res]

\* list(executor.map(...)): the results in the order of the chunks
MapResults(futs, order) == [i \in 1..Len(futs) |-> futs[i].res]

\* lines 245, 271: [chunk for chunk in translated_chunks if chunk]
RemoveFailed(results) == SelectSeq(results, Truthy)

\* the name the tracker would keep if the fallback did not set it
FallbackServiceStale == "Mistral LLM"

\* a tracker that keeps naming the generative service that was tried first
FallbackServiceAttempted ==
    IF get_language_code(source_language) = "el" THEN "Amazon Titan" ELSE "Mistral LLM"

\* lines 311, 323, 328, 337, 371, 380, 385, 394
FallbackService == "Amazon Translate"

\* a fallback that prefers the thread's result when it has arrived
FallbackTextPreferOutput(out, reply) ==
    IF "result" \in DOMAIN out /\ Truthy(out["result"]) /\ out["result"] # NonStr
    THEN out["result"] ELSE reply

\* lines 310, 370: the text after the fallback call, with the dict in scope
FallbackText(out, reply) == reply

\* output.get("result", None)
GetResult(out) == IF "result" \in DOMAIN out THEN out["result"] ELSE None

IsStr(t) == t # None /\ t # NonStr

\* lines 320 and 377: empty, placeholder-only or not a string
EmptyOrNotStr(t) ==
    \/ ~ (t # None /\ t # <<>>)
    \/ (IsStr(t) /\ strip(t) \in {<<>>, Placeholder})
    \/ ~ IsStr(t)

\* lines 325 and 382: the hallucination test of each backend
Hallucinated(t, text, svc) ==
    \/ 2 * Len(t) < Len(text)
    \/ (svc = "Amazon Titan" /\ \E i \in 1..Len(strip(t)) : strip(t)[i] = "REFUSAL")

\* lines 320-338 and 377-395: TRUE when the generative result is kept
Accepts(t, text, svc) ==
    /\ ~ EmptyOrNotStr(t)
    /\ ~ Hallucinated(t, text, svc)
    /\ Truthy(t)

\* lines 402-409
SafetyNet(text, language, translated) ==
    IF /\ LowerName(language) \in {"spanish", "es"}
       /\ \E i \in 1..Len(text) : text[i] \in redwords_to_flag
    THEN IF translated[Len(translated)] = "FENCE"
         THEN SubSeq(translated, 1, Len(translated) - 1)
              \o <<"CUSTOMER:", "I", "am", "addicted", "FENCE">>
         ELSE translated \o <<" ", "CUSTOMER:", "I", "am", "addicted">>
    ELSE translated

\* one entry of the log of translation calls
Call(svc, src, unit) == [svc |-> svc, src |-> src, unit |-> unit, attempt |-> attempt]

---------------------------------------------------------------------------
(* lambda_function.py: lambda_handler, step by step *)

Init ==
    /\ pc = "start"
    /\ sentences \in Transcripts
    /\ source_language \in Languages
    /\ channel \in Channels
    /\ attempt = 0
    /\ chunks = <<>>
    /\ futures = <<>>
    /\ completed = <<>>
    /\ translated_chunks = <<>>
    /\ sentences_to_flag = None
    /\ translation_service_used = "None"
    /\ flagged = FALSE
    /\ sentence_to_rule = <<>>
    /\ rd_total_time = "unbound"
    /\ output = <<>>
    /\ thread = "none"
    /\ timed_out = FALSE
    /\ fallback = [st |-> "none", res |-> None]
    /\ calls = <<>>
    /\ matched_text = None
    /\ logs = "none"
    /\ response = "none"
    /\ current_rule = NoRule
    /\ rule_result = NoResult

source_language_code == get_language_code(source_language)

\* lines 137-144: the channel is not chat
SkipNonChat ==
    /\ pc = "start"
    /\ ~ IsChat(channel)
    /\ flagged' = FALSE
    /\ sentence_to_rule' = None
    /\ sentences_to_flag' = None
    /\ translation_service_used' = "No Translation Service"
    /\ rd_total_time' = "set"
    /\ pc' = "respond"
    /\ UNCHANGED <<sentences, source_language, channel, attempt, chunks, futures,
                   completed, translated_chunks, output, thread, timed_out,
                   fallback, calls, matched_text, logs, response, current_rule,
                   rule_result>>

\* lines 147-152: English is not translated
EnglishPassthrough ==
    /\ pc = "start"
    /\ IsChat(channel)
    /\ IsEnglish(source_language)
    /\ sentences_to_flag' = sentences
    /\ translation_service_used' = "No Translation Service"
    /\ pc' = "match"
    /\ UNCHANGED <<sentences, source_language, channel, attempt, chunks, futures,
                   completed, translated_chunks, flagged, sentence_to_rule,
                   rd_total_time, output, thread, timed_out, fallback, calls,
                   matched_text, logs, response, current_rule,
                   rule_result>>

\* lines 156-160: the text is long enough to be chunked
BeginChunked ==
    /\ pc = "start"
    /\ IsChat(channel)
    /\ ~ IsEnglish(source_language)
    /\ NeedsChunking(sentences, source_language_code)
    /\ attempt' = 1
    /\ pc' = "chunk"
    /\ UNCHANGED <<sentences, source_language, channel, chunks, futures, completed,
                   translated_chunks, sentences_to_flag, translation_service_used,
                   flagged, sentence_to_rule, rd_total_time, output, thread,
                   timed_out, fallback, calls, matched_text, logs, response, current_rule,
                   rule_result>>

\* lines 163-241: the chunks of this attempt, all submitted to translate_chunk
SubmitChunks ==
    /\ pc = "chunk"
    /\ chunks' = MakeChunks(sentences)
    /\ futures' = Submit(MakeChunks(sentences), ChunkService(source_language_code))
    /\ completed' = <<>>
    /\ pc' = "gen_batch"
    /\ UNCHANGED <<sentences, source_language, channel, attempt, translated_chunks,
                   sentences_to_flag, translation_service_used, flagged,
                   sentence_to_rule, rd_total_time, output, thread, timed_out,
                   fallback, calls, matched_text, logs, response, current_rule,
                   rule_result>>

Running == {i \in 1..Len(futures) : futures[i].st = "running"}

\* a worker of the pool takes the next work item of the queue
CanStart(i) ==
    /\ futures[i].st = "pending"
    /\ \A j \in 1..(i - 1) : futures[j].st # "pending"
    /\ Cardinality(Running) < max_workers

\* lines 201-228: a worker enters translate_chunk and calls the backend
ChunkStart(i) ==
    /\ pc = "gen_batch"
    /\ CanStart(i)
    /\ futures' = [futures EXCEPT ![i].st = "running"]
    /\ calls' = Append(calls, Call(futures[i].svc, chunks[i], "chunk"))
    /\ UNCHANGED <<pc, sentences, source_language, channel, attempt, chunks,
                   completed, translated_chunks, sentences_to_flag,
                   translation_service_used, flagged, sentence_to_rule,
                   rd_total_time, output, thread, timed_out, fallback,
                   matched_text, logs, response, current_rule,
                   rule_result>>

\* lines 207-214 and 228-235: the backend answers or raises inside translate_chunk
ChunkReturn(i, reply) ==
    /\ pc = "gen_batch"
    /\ futures[i].st = "running"
    /\ completed' = Append(completed, i)
    /\ \/ /\ reply = Raised
          /\ futures' = [futures EXCEPT ![i].st = "done", ![i].res = None]
          /\ UNCHANGED translation_service_used
       \/ /\ reply # Raised
          /\ futures' = [futures EXCEPT ![i].st = "done", ![i].res = reply]
          /\ translation_service_used' = futures[i].svc
    /\ UNCHANGED <<pc, sentences, source_language, channel, attempt, chunks,
                   translated_chunks, sentences_to_flag, flagged, sentence_to_rule,
                   rd_total_time, output, thread, timed_out, fallback, calls,
                   matched_text, logs, response, current_rule,
                   rule_result>>

\* a barrier that opens at the first completed call
SomeDone == \E i \in 1..Len(futures) : futures[i].st = "done"

\* lines 241, 268: list(executor.map(...)) returns when every call has ended
AllDone == \A i \in 1..Len(futures) : futures[i].st = "done"

\* lines 244-256: every chunk came back translated
AcceptChunks ==
    /\ pc = "gen_batch"
    /\ AllDone
    /\ LET kept == RemoveFailed(MapResults(futures, completed))
       IN  /\ Len(kept) = Len(chunks)
           /\ translated_chunks' = kept
           /\ sentences_to_flag' = JoinSpace(kept)
    /\ pc' = "match"
    /\ UNCHANGED <<sentences, source_language, channel, attempt, chunks, futures,
                   completed, translation_service_used, flagged, sentence_to_rule,
                   rd_total_time, output, thread, timed_out, fallback, calls,
                   matched_text, logs, response, current_rule,
                   rule_result>>

\* lines 257-268: first attempt, not Greek: all chunks again with Amazon Translate
StartFallbackBatch ==
    /\ pc = "gen_batch"
    /\ AllDone
    /\ LET kept == RemoveFailed(MapResults(futures, completed))
       IN  /\ Len(kept) # Len(chunks)
           /\ translated_chunks' = kept
    /\ attempt = 1
    /\ source_language_code # "el"
    /\ translation_service_used' = "Amazon Translate"
    /\ futures' = SubmitFallback(chunks, futures)
    /\ completed' = <<>>
    /\ pc' = "det_batch"
    /\ UNCHANGED <<sentences, source_language, channel, attempt, chunks,
                   sentences_to_flag, flagged, sentence_to_rule, rd_total_time,
                   output, thread, timed_out, fallback, calls, matched_text, logs,
                   response, current_rule,
                   rule_result>>

\* lines 280-282: "Max retries reached"; the for loop goes on to its next attempt
GiveUpAttempt ==
    /\ pc = "gen_batch"
    /\ AllDone
    /\ LET kept == RemoveFailed(MapResults(futures, completed))
       IN  /\ Len(kept) # Len(chunks)
           /\ translated_chunks' = kept
    /\ ~ (attempt = 1 /\ source_language_code # "el")
    /\ sentences_to_flag' = None
    /\ \/ /\ attempt = 1
          /\ attempt' = 2
          /\ pc' = "chunk"
       \/ /\ attempt = 2
          /\ attempt' = attempt
          /\ pc' = "match"
    /\ UNCHANGED <<sentences, source_language, channel, chunks, futures, completed,
                   translation_service_used, flagged, sentence_to_rule,
                   rd_total_time, output, thread, timed_out, fallback, calls,
                   matched_text, logs, response, current_rule,
                   rule_result>>

\* line 268: a worker calls translate_with_amazon_translate for a chunk
FallbackChunkStart(i) ==
    /\ pc = "det_batch"
    /\ CanStart(i)
    /\ futures' = [futures EXCEPT ![i].st = "running"]
    /\ calls' = Append(calls, Call(futures[i].svc, chunks[i], "chunk"))
    /\ UNCHANGED <<pc, sentences, source_language, channel, attempt, chunks,
                   completed, translated_chunks, sentences_to_flag,
                   translation_service_used, flagged, sentence_to_rule,
                   rd_total_time, output, thread, timed_out, fallback,
                   matched_text, logs, response, current_rule,
                   rule_result>>

\* lines 85-92: the call returns, or its exception is kept in the future
FallbackChunkReturn(i, reply) ==
    /\ pc \in {"det_batch", "det_unwind"}
    /\ futures[i].st = "running"
    /\ completed' = Append(completed, i)
    /\ futures' = [futures EXCEPT ![i].st = "done", ![i].res = reply]
    /\ UNCHANGED <<pc, sentences, source_language, channel, attempt, chunks,
                   translated_chunks, sentences_to_flag, translation_service_used,
                   flagged, sentence_to_rule, rd_total_time, output, thread,
                   timed_out, fallback, calls, matched_text, logs, response, current_rule,
                   rule_result>>

\* line 268: list(executor.map(...)) reaches a future that holds an exception;
\* the futures not yet started are cancelled
FallbackBatchRaises ==
    /\ pc = "det_batch"
    /\ \E i \in 1..Len(futures) :
          /\ futures[i].st = "done"
          /\ futures[i].res = Raised
          /\ \A j \in 1..(i - 1) : futures[j].st = "done" /\ futures[j].res # Raised
    /\ futures' = [i \in 1..Len(futures) |->
                      IF futures[i].st = "pending"
                      THEN [futures[i] EXCEPT !.st = "cancelled"] ELSE futures[i]]
    /\ pc' = "det_unwind"
    /\ UNCHANGED <<sentences, source_language, channel, attempt, chunks, completed,
                   translated_chunks, sentences_to_flag, translation_service_used,
                   flagged, sentence_to_rule, rd_total_time, output, thread,
                   timed_out, fallback, calls, matched_text, logs, response, current_rule,
                   rule_result>>

\* line 267: the with block waits for the running workers, then the exception
\* leaves lambda_handler
FallbackBatchUnwinds ==
    /\ pc = "det_unwind"
    /\ Running = {}
    /\ pc' = "raised"
    /\ UNCHANGED <<sentences, source_language, channel, attempt, chunks, futures,
                   completed, translated_chunks, sentences_to_flag,
                   translation_service_used, flagged, sentence_to_rule,
                   rd_total_time, output, thread, timed_out, fallback, calls,
                   matched_text, logs, response, current_rule,
                   rule_result>>

NoneRaised == \A i \in 1..Len(futures) : futures[i].res # Raised

\* lines 270-277: Amazon Translate translated every chunk
AcceptFallbackChunks ==
    /\ pc = "det_batch"
    /\ AllDone
    /\ NoneRaised
    /\ LET kept == RemoveFailed(MapResults(futures, completed))
       IN  /\ Len(kept) = Len(chunks)
           /\ translated_chunks' = kept
           /\ sentences_to_flag' = JoinSpace(kept)
    /\ pc' = "match"
    /\ UNCHANGED <<sentences, source_language, channel, attempt, chunks, futures,
                   completed, translation_service_used, flagged, sentence_to_rule,
                   rd_total_time, output, thread, timed_out, fallback, calls,
                   matched_text, logs, response, current_rule,
                   rule_result>>

\* lines 278-279: "Amazon Translate also failed"; the for loop goes on to attempt 2
FallbackChunksFailed ==
    /\ pc = "det_batch"
    /\ AllDone
    /\ NoneRaised
    /\ LET kept == RemoveFailed(MapResults(futures, completed))
       IN  /\ Len(kept) # Len(chunks)
           /\ translated_chunks' = kept
    /\ attempt' = 2
    /\ pc' = "chunk"
    /\ UNCHANGED <<sentences, source_language, channel, chunks, futures, completed,
                   sentences_to_flag, translation_service_used, flagged,
                   sentence_to_rule, rd_total_time, output, thread, timed_out,
                   fallback, calls, matched_text, logs, response, current_rule,
                   rule_result>>

\* lines 285-303 and 343-363: the generative call starts in its own thread
StartSingleShot ==
    /\ pc = "start"
    /\ IsChat(channel)
    /\ ~ IsEnglish(source_language)
    /\ ~ NeedsChunking(sentences, source_language_code)
    /\ output' = <<>>
    /\ thread' = "running"
    /\ calls' = Append(calls, Call(SingleShotService(source_language_code),
                                   sentences, "whole"))
    /\ pc' = "join"
    /\ UNCHANGED <<sentences, source_language, channel, attempt, chunks, futures,
                   completed, translated_chunks, sentences_to_flag,
                   translation_service_used, flagged, sentence_to_rule,
                   rd_total_time, timed_out, fallback, matched_text, logs, response, current_rule,
                   rule_result>>

\* lines 95-108: run_titan_translation / run_mistral_translation write the dict,
\* whenever the backend answers
ThreadReturn(reply) ==
    /\ thread = "running"
    /\ thread' = "dead"
    /\ output' = IF reply = Raised THEN ("error" :> <<"error">>) @@ output
                 ELSE ("result" :> reply) @@ output
    /\ UNCHANGED <<pc, sentences, source_language, channel, attempt, chunks,
                   futures, completed, translated_chunks, sentences_to_flag,
                   translation_service_used, flagged, sentence_to_rule,
                   rd_total_time, timed_out, fallback, calls, matched_text, logs,
                   response, current_rule,
                   rule_result>>

\* lines 303-307 and 363-367: join(timeout=50) gave up and the thread is alive
JoinTimedOut ==
    /\ pc = "join"
    /\ thread = "running"
    /\ timed_out' = TRUE
    /\ pc' = "fallback_call"
    /\ UNCHANGED <<sentences, source_language, channel, attempt, chunks, futures,
                   completed, translated_chunks, sentences_to_flag,
                   translation_service_used, flagged, sentence_to_rule,
                   rd_total_time, output, thread, fallback, calls, matched_text,
                   logs, response, current_rule,
                   rule_result>>

\* lines 314-338 and 374-395: the thread ended in time; its result is kept or not
JoinCompleted ==
    /\ pc = "join"
    /\ thread = "dead"
    /\ sentences_to_flag' = GetResult(output)
    /\ IF Accepts(GetResult(output), sentences, SingleShotService(source_language_code))
       THEN /\ translation_service_used' = SingleShotService(source_language_code)
            /\ pc' = "match"
       ELSE /\ UNCHANGED translation_service_used
            /\ pc' = "fallback_call"
    /\ UNCHANGED <<sentences, source_language, channel, attempt, chunks, futures,
                   completed, translated_chunks, flagged, sentence_to_rule,
                   rd_total_time, output, thread, timed_out, fallback, calls,
                   matched_text, logs, response, current_rule,
                   rule_result>>

\* lines 310, 322, 327, 336, 370, 379, 384, 393: translate_with_amazon_translate
FallbackCall ==
    /\ pc = "fallback_call"
    /\ fallback' = [st |-> "running", res |-> None]
    /\ calls' = Append(calls, Call("Amazon Translate", sentences, "whole"))
    /\ pc' = "fallback_wait"
    /\ UNCHANGED <<sentences, source_language, channel, attempt, chunks, futures,
                   completed, translated_chunks, sentences_to_flag,
                   translation_service_used, flagged, sentence_to_rule,
                   rd_total_time, output, thread, timed_out, matched_text, logs,
                   response, current_rule,
                   rule_result>>

\* the call returns and the tracker is set, or its exception leaves lambda_handler
FallbackReturn(reply) ==
    /\ pc = "fallback_wait"
    /\ fallback' = [st |-> "done", res |-> reply]
    /\ \/ /\ reply = Raised
          /\ pc' = "raised"
          /\ UNCHANGED <<sentences_to_flag, translation_service_used>>
       \/ /\ reply # Raised
          /\ sentences_to_flag' = FallbackText(output, reply)
          /\ translation_service_used' = FallbackService
          /\ pc' = "match"
    /\ UNCHANGED <<sentences, source_language, channel, attempt, chunks, futures,
                   completed, translated_chunks, flagged, sentence_to_rule,
                   rd_total_time, output, thread, timed_out, calls, matched_text,
                   logs, response, current_rule,
                   rule_result>>

\* lines 400-416: the red-words logic, or no flags when there is no text
ApplyRedWords ==
    /\ pc = "match"
    /\ IF Truthy(sentences_to_flag)
       THEN LET text == SafetyNet(sentences, source_language, sentences_to_flag)
                r == flag_sentences(text, rules, name_mapping)
            IN  /\ sentences_to_flag' = text
                /\ matched_text' = text
                /\ flagged' = r.flagged
                /\ sentence_to_rule' = r.sentence_to_rule
                /\ rd_total_time' = "set"
                /\ pc' = IF r.raised THEN "raised" ELSE "respond"
       ELSE /\ flagged' = FALSE
            /\ sentence_to_rule' = <<>>
            /\ pc' = "respond"
            /\ UNCHANGED <<sentences_to_flag, matched_text, rd_total_time>>
    /\ UNCHANGED <<sentences, source_language, channel, attempt, chunks, futures,
                   completed, translated_chunks, translation_service_used, output,
                   thread, timed_out, fallback, calls, logs, response, current_rule,
                   rule_result>>

\* lines 421-448: the log record is built and put to S3, the verdict is returned
Respond ==
    /\ pc = "respond"
    /\ rd_total_time = "set"
    /\ logs' = [red_word_flag |-> IF flagged THEN 1 ELSE 0,
                sentences_flagged |-> sentence_to_rule,
                translation_service_used |-> translation_service_used]
    /\ response' = [red_word_flag |-> IF flagged THEN 1 ELSE 0]
    /\ pc' = "done"
    /\ UNCHANGED <<sentences, source_language, channel, attempt, chunks, futures,
                   completed, translated_chunks, sentences_to_flag,
                   translation_service_used, flagged, sentence_to_rule,
                   rd_total_time, output, thread, timed_out, fallback, calls,
                   matched_text, current_rule,
                   rule_result>>

\* line 438: rd_total_time was never assigned: UnboundLocalError
RespondUnbound ==
    /\ pc = "respond"
    /\ rd_total_time = "unbound"
    /\ pc' = "raised"
    /\ UNCHANGED <<sentences, source_language, channel, attempt, chunks, futures,
                   completed, translated_chunks, sentences_to_flag,
                   translation_service_used, flagged, sentence_to_rule,
                   rd_total_time, output, thread, timed_out, fallback, calls,
                   matched_text, logs, response, current_rule,
                   rule_result>>

Next ==
    \/ SkipNonChat
    \/ EnglishPassthrough
    \/ BeginChunked
    \/ SubmitChunks
    \/ \E i \in 1..Len(futures) : ChunkStart(i)
    \/ \E i \in 1..Len(futures), reply \in ChunkReplies : ChunkReturn(i, reply)
    \/ AcceptChunks
    \/ StartFallbackBatch
    \/ GiveUpAttempt
    \/ \E i \in 1..Len(futures) : FallbackChunkStart(i)
    \/ \E i \in 1..Len(futures), reply \in DeterministicReplies :
          FallbackChunkReturn(i, reply)
    \/ FallbackBatchRaises
    \/ FallbackBatchUnwinds
    \/ AcceptFallbackChunks
    \/ FallbackChunksFailed
    \/ StartSingleShot
    \/ \E reply \in GenerativeReplies : ThreadReturn(reply)
    \/ JoinTimedOut
    \/ JoinCompleted
    \/ FallbackCall
    \/ \E reply \in DeterministicReplies : FallbackReturn(reply)
    \/ ApplyRedWords
    \/ Respond
    \/ RespondUnbound

Spec == Init /\ [][Next]_vars

---------------------------------------------------------------------------
(* Claims about lambda_handler (specification Spec) *)

Generative == {"Mistral LLM", "Amazon Titan"}

\* the text of the current batch put together in the order of the chunks
InIndexOrder == JoinSpace([i \in 1..Len(futures) |-> futures[i].res])

\* a chunked translation was accepted
ChunkedAccepted == attempt >= 1 /\ pc \in {"match", "respond", "done"} /\ sentences_to_flag # None

\* C1: on the chunked path, when every attempt left fewer translated chunks than
\* chunks (sentences_to_flag = None after the second attempt), lambda_handler
\* does not raise, and what it returns is red_word_flag = 0 with no flags.
C1_FailOpen ==
    (attempt = 2 /\ sentences_to_flag = None /\ pc \in {"match", "respond", "done", "raised"})
        => /\ pc # "raised"
           /\ pc = "done" => (response.red_word_flag = 0 /\ sentence_to_rule = <<>>)

\* C2 (state part): an accepted chunked text is made of the results of one batch
\* of one service, one result per chunk, none of them a failed one.
C2_NoMixing ==
    ChunkedAccepted =>
        /\ Len(futures) = Len(chunks)
        /\ \A i \in 1..Len(futures) :
              /\ futures[i].st = "done"
              /\ Truthy(futures[i].res)
              /\ futures[i].svc = futures[1].svc
        /\ translated_chunks = [i \in 1..Len(futures) |-> futures[i].res]

\* C2 (step part): when the first batch of generative chunk calls has resolved
\* with a failed chunk, the next step submits every chunk to Amazon Translate.
C2_AllResubmitted ==
    (/\ pc = "gen_batch" /\ pc' # "gen_batch"
     /\ attempt = 1
     /\ source_language_code # "el"
     /\ \E i \in 1..Len(futures) : ~ Truthy(futures[i].res))
        => /\ pc' = "det_batch"
           /\ Len(futures') = Len(chunks)
           /\ \A i \in 1..Len(chunks) :
                 futures'[i] = [st |-> "pending", res |-> None, svc |-> "Amazon Translate"]

\* C2: global fallback without mixing: a failed generative chunk sends every
\* chunk to the deterministic translator, and an accepted text never combines
\* the outputs of two services or two batches.
C2_GlobalFallback == [] C2_NoMixing /\ [][C2_AllResubmitted]_vars

C2_Witness ==
    /\ pc = "det_batch"
    /\ Len(chunks) = 3
    /\ translated_chunks # <<>>
    /\ Len(translated_chunks) < Len(chunks)
    /\ AllDone
    /\ \A i \in 1..Len(futures) : Truthy(futures[i].res) /\ futures[i].res # Raised

\* C3: when every chunk is translated, the accepted text is the translations of
\* the chunks joined with one space in the order of the chunks, whatever the
\* order in which the calls completed.
C3_OrderPreserved ==
    (attempt >= 1 /\ pc = "match" /\ sentences_to_flag # None)
        => sentences_to_flag = InIndexOrder

C3_Witness ==
    /\ attempt >= 1 /\ pc = "match" /\ sentences_to_flag # None
    /\ completed = <<2, 3, 1>>
    /\ futures[1].res # futures[2].res
    /\ futures[2].res = futures[3].res

\* C4: single shot, the generative thread still alive at the timeout: the text
\* handed on to the red-words stage is what Amazon Translate returned for the
\* whole input (with the Spanish sentence appended where that applies), and
\* translation_service_used is "Amazon Translate", with Titan and with Mistral.
C4_TimeoutFallback ==
    timed_out =>
        /\ pc = "match" =>
              /\ sentences_to_flag = fallback.res
              /\ translation_service_used = "Amazon Translate"
              /\ calls[Len(calls)] =
                    [svc |-> "Amazon Translate", src |-> sentences,
                     unit |-> "whole", attempt |-> 0]
        /\ (pc \in {"respond", "done"} /\ matched_text # None) =>
              matched_text = SafetyNet(sentences, source_language, fallback.res)
        /\ pc = "done" => logs.translation_service_used = "Amazon Translate"

C4_Witness ==
    /\ timed_out
    /\ source_language = "Greek"
    /\ pc = "done"
    /\ matched_text = fallback.res
    /\ calls[1].svc = "Amazon Titan"

\* C5: once the thread was seen alive at the timeout, what it writes later
\* changes nothing: text, verdict and service are those of the fallback call.
C5_AbandonedDiscarded ==
    (timed_out /\ pc \in {"respond", "done"}) =>
        /\ translation_service_used = "Amazon Translate"
        /\ IF Truthy(fallback.res)
           THEN LET text == SafetyNet(sentences, source_language, fallback.res)
                IN  /\ matched_text = text
                    /\ flagged = flag_sentences(text, rules, name_mapping).flagged
           ELSE matched_text = None /\ ~ flagged

C5_Witness ==
    /\ timed_out
    /\ pc = "done"
    /\ source_language = "German"
    /\ "result" \in DOMAIN output
    /\ output["result"] \in GoodTexts
    /\ fallback.res \in GoodTexts
    /\ output["result"] # fallback.res
    /\ flagged = FALSE

\* C7: once the batch of Amazon Translate calls has left a chunk untranslated,
\* no further translation call is started, and the generative translator is
\* called at most once for a chunk: no call belongs to a second attempt.
C7_TwoTiersOnly ==
    source_language_code # "el" =>
        \A k \in 1..Len(calls) :
            /\ calls[k].attempt # 2
            /\ calls[k].svc \in Generative => calls[k].attempt <= 1

\* C8: an exception of a translation call never leaves lambda_handler.
C8_NoBackendErrorSurfaces ==
    ~ (/\ pc = "raised"
       /\ \/ fallback.res = Raised
          \/ \E i \in 1..Len(futures) : futures[i].res = Raised)

\* C9: a chat request with an empty transcript returns red_word_flag = 0 and
\* does not raise, in English and in any other language.
C9_EmptyTranscript ==
    (sentences = <<>> /\ LowerName(channel) = "chat") =>
        /\ pc # "raised"
        /\ pc = "done" => response.red_word_flag = 0

\* C10: for English no translator is called, the text handed to matching is
\* the input transcript, and the service recorded is "No Translation Service".
C10_EnglishPassthrough ==
    source_language = "English" =>
        /\ calls = <<>>
        /\ thread = "none"
        /\ fallback.st = "none"
        /\ futures = <<>>
        /\ (pc = "match" /\ LowerName(channel) = "chat") =>
              sentences_to_flag = sentences
        /\ matched_text # None => matched_text = sentences
        /\ pc \in {"match", "respond", "done"} =>
              translation_service_used = "No Translation Service"
        /\ pc = "done" => logs.translation_service_used = "No Translation Service"

C10_Witness ==
    /\ source_language = "English"
    /\ channel = "Chat"
    /\ pc = "done"
    /\ matched_text = sentences
    /\ flagged

\* the tests the quality heuristic is said to apply to a generative output
Rejectable(t, text) ==
    \/ t \in {None, NonStr, <<>>}
    \/ strip(t) \in {<<>>, Placeholder}
    \/ 2 * Len(t) < Len(text)
    \/ \E i \in 1..Len(t) : t[i] = "REFUSAL"

\* a single-shot request whose generative thread ended before the timeout
CompletedInTime ==
    /\ attempt = 0
    /\ thread = "dead"
    /\ ~ timed_out
    /\ pc \in {"fallback_call", "fallback_wait", "match"}

\* C11: a single-shot generative output that arrived in time is rejected, and
\* Amazon Translate is run and named, whenever it is empty, placeholder-only,
\* not a string, shorter than half the input or holds a refusal phrase, with
\* either backend; any other output is kept and the backend is named.
C11_HallucinationHeuristic ==
    CompletedInTime =>
        IF Rejectable(GetResult(output), sentences)
        THEN /\ fallback.st # "none" \/ pc = "fallback_call"
             /\ pc = "match" => translation_service_used = "Amazon Translate"
        ELSE /\ pc = "match"
             /\ fallback.st = "none"
             /\ sentences_to_flag = GetResult(output)
             /\ translation_service_used \in Generative

\* the original text holds one of the Spanish terms
HasRedWord(text) == \E i \in 1..Len(text) : text[i] \in redwords_to_flag

\* the translated text already holds the English phrase the terms stand for
HasTargetPhrase(translated) ==
    \E i \in 1..(Len(translated) - 2) :
        SubSeq(translated, i, i + 2) = <<"I", "am", "addicted">>

\* the translated text with the synthetic customer sentence appended
WithSyntheticSentence(translated) ==
    IF translated[Len(translated)] = "FENCE"
    THEN SubSeq(translated, 1, Len(translated) - 1)
         \o <<"CUSTOMER:", "I", "am", "addicted", "FENCE">>
    ELSE translated \o <<" ", "CUSTOMER:", "I", "am", "addicted">>

\* C12 (one step): the step from translation to matching
C12_Step ==
    (pc = "match" /\ pc' # "match") =>
        IF ~ Truthy(sentences_to_flag)
        THEN matched_text' = None
        ELSE IF /\ source_language = "Spanish"
                /\ HasRedWord(sentences)
                /\ ~ HasTargetPhrase(sentences_to_flag)
        THEN matched_text' = WithSyntheticSentence(sentences_to_flag)
        ELSE matched_text' = sentences_to_flag

\* C12: for Spanish the synthetic customer sentence is appended to the
\* translated text, between translation and matching, only if the original
\* holds one of the terms and the translation does not already hold the target
\* phrase, and never when the translation failed.
C12_SafetyNetConditional == [][C12_Step]_vars

TranslationServices == {"Mistral LLM", "Amazon Titan", "Amazon Translate"}

\* translation of a chat transcript that is not English ended without a text
TranslationFailed ==
    /\ LowerName(channel) = "chat"
    /\ source_language # "English"
    /\ pc \in {"respond", "done"}
    /\ ~ Truthy(sentences_to_flag)

\* C18: when translation has failed totally, the translation_service_used that
\* goes into the record is not the name of a translation service.
C18_FailureVisible ==
    TranslationFailed =>
        /\ translation_service_used \notin TranslationServices
        /\ pc = "done" => logs.translation_service_used \notin TranslationServices

\* a chat transcript that is not English
ToTranslate == LowerName(channel) = "chat" /\ source_language # "English"

\* the threshold of lines 156-158 that applies to a language code
ThresholdFor(code) ==
    CASE code = "el" -> chunking_length_threshold_el
      [] code = "pt" -> chunking_length_threshold_pt
      [] OTHER -> chunking_length_threshold

\* the request is on the path of the chunk worker pool
OnChunkPath ==
    \/ attempt >= 1
    \/ \E k \in 1..Len(calls) : calls[k].unit = "chunk"

\* C19: a text the chunker turns into exactly one chunk is translated by the
\* single-shot thread with its timeout, never by the chunk worker pool.
C19_SingleChunkSingleShot ==
    (ToTranslate /\ Len(MakeChunks(sentences)) = 1) => ~ OnChunkPath

\* C20: a text no longer than the threshold of its language, a text of exactly
\* that length included, is not chunked and is translated single-shot.
C20_ChunkingThreshold ==
    (ToTranslate /\ Len(sentences) <= ThresholdFor(source_language_code))
        => /\ ~ OnChunkPath
           /\ pc \notin {"start", "raised"} => calls # <<>> /\ calls[1].unit = "whole"

\* C22: for every non-English source language the chunks of the first batch
\* are all submitted to a generative translator, and a text accepted from
\* that batch is generative output recorded with a generative service name.
\* Lines 203-214 send the chunks of a Greek text to Amazon Translate.
C22_GenerativeFirst ==
    (ToTranslate /\ pc \in {"gen_batch", "match", "respond", "done"}
        /\ attempt = 1 /\ futures # <<>>
        /\ \A i \in 1..Len(futures) : futures[i].svc = ChunkService(source_language_code))
        => /\ \A i \in 1..Len(futures) : futures[i].svc \in Generative
           /\ (pc = "match" /\ Truthy(sentences_to_flag))
                 => translation_service_used \in Generative

Resolved == \A i \in 1..Len(futures) : futures[i].st = "done"

GenerativeChunkCalls ==
    {k \in 1..Len(calls) : calls[k].unit = "chunk" /\ calls[k].svc \in Generative}

\* C23: while a chunk call of the running batch has not completed or failed,
\* no chunk result is consumed (translated_chunks and sentences_to_flag keep
\* their values), the batch is neither accepted nor replaced by the fallback
\* batch, and so no Amazon Translate fallback call starts beside a generative
\* chunk call that is still running.
C23_Step ==
    (pc = "gen_batch" /\ ~ Resolved)
        => /\ pc' = "gen_batch"
           /\ translated_chunks' = translated_chunks
           /\ sentences_to_flag' = sentences_to_flag
           /\ \A i \in 1..Len(futures) : futures'[i].svc = futures[i].svc

C23_BatchBarrier == [][C23_Step]_vars

C23_Witness ==
    /\ pc = "det_batch"
    /\ Cardinality(GenerativeChunkCalls) = Len(chunks)
    /\ Len(chunks) = 3
    /\ Len(translated_chunks) \in 1..2
    /\ \E i \in 1..Len(futures) : futures[i].st = "running"
    /\ calls[Len(calls)].svc = "Amazon Translate"

NotChat == LowerName(channel) # "chat"

\* C26: a request whose channel is not "chat", letter case set aside, starts
\* no translation call and no rule evaluation, does not raise, and is answered
\* with red_word_flag = 0 and translation_service_used = "No Translation
\* Service", whatever its transcript and language are.
C26_NonChatSkipped ==
    NotChat =>
        /\ calls = <<>>
        /\ futures = <<>>
        /\ thread = "none"
        /\ fallback.st = "none"
        /\ matched_text = None
        /\ pc \in {"start", "respond", "done"}
        /\ pc = "done" =>
              /\ response = [red_word_flag |-> 0]
              /\ logs.red_word_flag = 0
              /\ logs.translation_service_used = "No Translation Service"

C26_Witness ==
    /\ NotChat
    /\ pc = "done"
    /\ source_language = "Spanish"
    /\ \E i \in 1..Len(sentences) : sentences[i] \in redwords_to_flag
    /\ response = [red_word_flag |-> 0]

\* translated text was accepted and is about to be matched
AcceptedTranslation == ToTranslate /\ pc = "match" /\ Truthy(sentences_to_flag)

\* the calls of the batch the accepted chunks came from: the last of the log
LastBatchCalls == SubSeq(calls, Len(calls) - Len(chunks) + 1, Len(calls))

\* C30: when translated text is accepted and handed to matching,
\* translation_service_used names the service whose calls returned every part
\* of it: on the chunked path each chunk of the accepted batch, whichever
\* worker wrote the tracker last and also after the fallback batch or in the
\* second attempt; on the single-shot path the fallback call when there was
\* one and the generative call otherwise.
C30_Provenance ==
    AcceptedTranslation =>
        IF attempt >= 1
        THEN /\ sentences_to_flag = InIndexOrder
             /\ \A i \in 1..Len(futures) :
                   /\ futures[i].svc = translation_service_used
                   /\ \E k \in 1..Len(LastBatchCalls) :
                         LastBatchCalls[k] =
                            [svc |-> translation_service_used, src |-> chunks[i],
                             unit |-> "chunk", attempt |-> attempt]
             /\ \A k \in 1..Len(LastBatchCalls) :
                   LastBatchCalls[k].svc = translation_service_used
        ELSE IF fallback.st = "done"
        THEN /\ sentences_to_flag = fallback.res
             /\ calls[Len(calls)].svc = "Amazon Translate"
             /\ translation_service_used = "Amazon Translate"
        ELSE /\ sentences_to_flag = GetResult(output)
             /\ Len(calls) = 1
             /\ translation_service_used = calls[1].svc

C30_Witness ==
    /\ AcceptedTranslation
    /\ attempt = 2
    /\ translation_service_used = "Mistral LLM"
    /\ Len(chunks) = 3
    /\ completed # <<1, 2, 3>>
    /\ \E k \in 1..Len(calls) : calls[k].svc = "Amazon Translate"

---------------------------------------------------------------------------
(* flag_sentences on its own: every transcript over FlagAlphabet *)

FlagAlphabet ==
    {"TS", "CUSTOMER:", "AGENT:", "BOT:", "John:", "Ann:", "addicted", "betting", "."}

\* the variables of lambda_handler before it has run
HandlerIdle ==
    /\ source_language = "English"
    /\ channel = "chat"
    /\ attempt = 0
    /\ chunks = <<>>
    /\ futures = <<>>
    /\ completed = <<>>
    /\ translated_chunks = <<>>
    /\ sentences_to_flag = None
    /\ translation_service_used = "None"
    /\ flagged = FALSE
    /\ sentence_to_rule = <<>>
    /\ rd_total_time = "unbound"
    /\ output = <<>>
    /\ thread = "none"
    /\ timed_out = FALSE
    /\ fallback = [st |-> "none", res |-> None]
    /\ calls = <<>>
    /\ matched_text = None
    /\ logs = "none"
    /\ response = "none"

InitFlag ==
    /\ pc = "flag_call"
    /\ sentences \in SeqsUpTo(FlagAlphabet, MaxFlagLen)
    /\ HandlerIdle
    /\ current_rule = NoRule
    /\ rule_result = NoResult

\* rd.flag_sentences(sentences, rules, name_mapping)
FlagCall ==
    /\ pc = "flag_call"
    /\ LET r == flag_sentences(sentences, rules, name_mapping)
       IN  /\ pc' = IF r.raised THEN "flag_raised" ELSE "flag_done"
           /\ flagged' = r.flagged
           /\ sentence_to_rule' = r.sentence_to_rule
    /\ matched_text' = sentences
    /\ UNCHANGED <<sentences, source_language, channel, attempt, chunks, futures,
                   completed, translated_chunks, sentences_to_flag,
                   translation_service_used, rd_total_time, output, thread,
                   timed_out, fallback, calls, logs, response, current_rule,
                   rule_result>>

NextFlag == FlagCall

SpecFlag == InitFlag /\ [][NextFlag]_vars

---------------------------------------------------------------------------
(* Claims about flag_sentences (specification SpecFlag) *)

\* the speaker a label of the raw transcript names
SpeakerOf(tok) ==
    CASE tok \in {"CUSTOMER:", "John:", "CUSTOMER:@"} -> "Customer"
      [] tok = "BOT:" -> "Bot"
      [] OTHER -> "Agent"

Labels == {"CUSTOMER:", "John:", "CUSTOMER:@", "AGENT:", "Ann:", "BOT:"}

\* the speaker of the turn position i lies in, "nobody" before the first label
RECURSIVE TurnOf(_, _)
TurnOf(t, i) ==
    IF i = 0 THEN "nobody"
    ELSE IF t[i] \in Labels THEN SpeakerOf(t[i])
    ELSE TurnOf(t, i - 1)

RuleWords == {"addicted", "betting", "bet", "bets"}

\* every word of a rule lies in a turn of the Agent or the Bot, and there is one
OnlyAgentSaysIt(t) ==
    /\ \E i \in 1..Len(t) : t[i] \in RuleWords
    /\ \A i \in 1..Len(t) : t[i] \in RuleWords => TurnOf(t, i) \in {"Agent", "Bot"}

\* C6: a transcript in which only the Agent or the Bot says a flagged phrase,
\* with or without a Customer message, is not flagged.
C6_RoleExclusion ==
    (pc = "flag_done" /\ OnlyAgentSaysIt(sentences)) => ~ flagged

\* alphabetical order of the keywords of the rules
Before(a, b) ==
    \/ (a = "addicted" /\ b \in {"bet", "betting"})
    \/ (a = "bet" /\ b = "betting")

\* the sentences of the customer that flag_sentences evaluates
EvaluatedSentences == CustomerSentences(Messages(sentences, name_mapping))

\* the rules that match a sentence
MatchingRules(s) == {k \in 1..Len(rules) : Evaluate(s, rules[k]).result}

\* C17: flag_sentences returns one entry for each distinct matched sentence
\* text, its keywords are the sorted union of the keywords of the rules that
\* matched it, and flagged is true exactly when there is an entry.
C17_FlagAggregation ==
    pc = "flag_done" =>
        /\ {sentence_to_rule[i].sentence : i \in 1..Len(sentence_to_rule)}
             = {EvaluatedSentences[n] : n \in
                   {m \in 1..Len(EvaluatedSentences) :
                        MatchingRules(EvaluatedSentences[m]) # {}}}
        /\ \A i, j \in 1..Len(sentence_to_rule) :
              i # j => sentence_to_rule[i].sentence # sentence_to_rule[j].sentence
        /\ \A i \in 1..Len(sentence_to_rule) :
              LET kws == sentence_to_rule[i].keywords
              IN  /\ {kws[n] : n \in 1..Len(kws)}
                       = UNION {{rules[k].keywords[n] : n \in 1..Len(rules[k].keywords)} :
                                   k \in MatchingRules(sentence_to_rule[i].sentence)}
                  /\ \A n \in 1..(Len(kws) - 1) : Before(kws[n], kws[n + 1])
        /\ flagged <=> sentence_to_rule # <<>>

C17_Witness ==
    /\ pc = "flag_done"
    /\ flagged
    /\ Len(sentence_to_rule) = 1
    /\ \E m, n \in 1..Len(EvaluatedSentences) :
          /\ m # n
          /\ EvaluatedSentences[m] = EvaluatedSentences[n]
          /\ MatchingRules(EvaluatedSentences[m]) # {}

\* the transcript after name replacement and re-punctuation
ProcessedTranscript ==
    preprocess_transcript(replace_names_with_placeholders(sentences, name_mapping))

NoCustomerToken ==
    \A i \in 1..Len(ProcessedTranscript) :
        ProcessedTranscript[i] \notin {"CUSTOMER:", "CUSTOMER:@"}

\* the sentences of the input transcript taken whole
WholeTranscriptSentences == sent_tokenize(sentences)

\* C24: when the processed transcript holds no Customer role token, the whole
\* input transcript is one message of the Customer: every sentence of it is
\* evaluated, so the flagged sentences are exactly its sentences that match a
\* rule, and the transcript is flagged exactly when there is one.
C24_UnlabeledFallback ==
    (pc = "flag_done" /\ NoCustomerToken) =>
        /\ EvaluatedSentences = WholeTranscriptSentences
        /\ {sentence_to_rule[i].sentence : i \in 1..Len(sentence_to_rule)}
             = {WholeTranscriptSentences[n] : n \in
                   {m \in 1..Len(WholeTranscriptSentences) :
                        MatchingRules(WholeTranscriptSentences[m]) # {}}}
        /\ flagged <=> \E n \in 1..Len(WholeTranscriptSentences) :
                          MatchingRules(WholeTranscriptSentences[n]) # {}

C24_Witness ==
    /\ pc = "flag_done"
    /\ NoCustomerToken
    /\ \E i \in 1..Len(sentences) : sentences[i] \in {"AGENT:", "BOT:", "Ann:"}
    /\ flagged
    /\ Len(WholeTranscriptSentences) = 1

---------------------------------------------------------------------------
(* check_rules and check_rules_any_order on their own: every sentence over  *)
(* RuleAlphabet against every rule of RuleSamples                           *)

RuleAlphabet == {"addicted", "betting", "bets", "not"}

\* rules as rd_rules.json can hold them; flexible_order is not read here
RuleSamples ==
    { rules[1],
      rules[2],
      [keywords |-> <<"addicted", "betting">>, max_distance |-> 1,
       flexible_order |-> FALSE, regex_patterns |-> <<>>,
       regex_exclusion_patterns |-> <<>>],
      [keywords |-> <<"addicted", "addicted">>, max_distance |-> 2,
       flexible_order |-> FALSE, regex_patterns |-> <<>>,
       regex_exclusion_patterns |-> <<>>],
      [keywords |-> <<"addicted", "bet", "betting">>, max_distance |-> 2,
       flexible_order |-> TRUE, regex_patterns |-> <<>>,
       regex_exclusion_patterns |-> <<>>],
      [keywords |-> <<"bet", "betting">>, max_distance |-> 1,
       flexible_order |-> FALSE, regex_patterns |-> << <<"not", "bets">> >>,
       regex_exclusion_patterns |-> <<>>],
      [keywords |-> <<>>, max_distance |-> 2,
       flexible_order |-> FALSE, regex_patterns |-> <<>>,
       regex_exclusion_patterns |-> <<>>],
      [keywords |-> <<>>, max_distance |-> 2,
       flexible_order |-> FALSE, regex_patterns |-> << <<"not", "bets">> >>,
       regex_exclusion_patterns |-> <<>>] }

InitRules ==
    /\ pc = "rule_call"
    /\ sentences \in SeqsUpTo(RuleAlphabet, MaxRuleLen)
    /\ current_rule \in RuleSamples
    /\ rule_result = NoResult
    /\ HandlerIdle

\* rd_utils.py lines 369-377: one sentence against one rule, in both modes
RuleCall ==
    /\ pc = "rule_call"
    /\ LET normalized_words == lemmatize_words(findall_words(sentences))
       IN  rule_result' =
             [strict |-> check_rules(normalized_words, sentences,
                             current_rule.keywords, current_rule.max_distance,
                             current_rule.regex_patterns,
                             current_rule.regex_exclusion_patterns),
              flexible |-> check_rules_any_order(normalized_words, sentences,
                             current_rule.keywords, current_rule.max_distance,
                             current_rule.regex_patterns,
                             current_rule.regex_exclusion_patterns)]
    /\ pc' = "rule_done"
    /\ UNCHANGED <<sentences, source_language, channel, attempt, chunks, futures,
                   completed, translated_chunks, sentences_to_flag,
                   translation_service_used, flagged, sentence_to_rule,
                   rd_total_time, output, thread, timed_out, fallback, calls,
                   matched_text, logs, response, current_rule>>

NextRules == RuleCall

SpecRules == InitRules /\ [][NextRules]_vars

---------------------------------------------------------------------------
(* Claims about check_rules and check_rules_any_order (specification SpecRules) *)

\* the words of the sentence the checks were called with
CheckedWords == lemmatize_words(findall_words(sentences))

\* a literal pattern occurs in the raw sentence, letter case set aside
Occurs(pattern, sentence) ==
    \E i \in 0..(Len(sentence) - Len(pattern)) :
        \A k \in 1..Len(pattern) : Lower(sentence[i + k]) = pattern[k]

AnyOccurs(patterns, sentence) ==
    \E p \in 1..Len(patterns) : Occurs(patterns[p], sentence)

\* one position per keyword, strictly increasing, all within max_distance
StrictTuple(words, keywords, max_distance) ==
    \E c \in [1..Len(keywords) -> 1..Len(words)] :
        /\ \A i \in 1..Len(keywords) : words[c[i]] = keywords[i]
        /\ \A i, j \in 1..Len(keywords) : i < j => c[i] < c[j]
        /\ \A i, j \in 1..Len(keywords) : c[j] - c[i] <= max_distance

\* every keyword occurs, and len(keywords) neighbouring positions of the union
\* of the keyword positions lie within max_distance
FlexibleRun(words, keywords, max_distance) ==
    LET U == {i \in 1..Len(words) : \E k \in 1..Len(keywords) : words[i] = keywords[k]}
    IN  /\ \A k \in 1..Len(keywords) : \E i \in 1..Len(words) : words[i] = keywords[k]
        /\ \E lo, hi \in U :
              /\ lo <= hi
              /\ Cardinality({u \in U : lo <= u /\ u <= hi}) = Len(keywords)
              /\ hi - lo <= max_distance

Reversed(s) == [i \in 1..Len(s) |-> s[Len(s) + 1 - i]]

\* C13: with no regex match deciding, check_rules returns true exactly when
\* there is one position per keyword, strictly increasing in keyword order,
\* with max - min <= max_distance, also for a list that repeats a keyword
\* (stated for the lists that hold a keyword).
C13_StrictOrder ==
    (/\ pc = "rule_done"
     /\ current_rule.keywords # <<>>
     /\ ~ AnyOccurs(current_rule.regex_patterns, sentences))
        => (rule_result.strict.result
              <=> StrictTuple(CheckedWords, current_rule.keywords,
                              current_rule.max_distance))

\* C14: with no regex match deciding, check_rules_any_order returns true
\* exactly when every keyword occurs and some run of len(keywords) consecutive
\* entries of the sorted union of the keyword positions spans at most
\* max_distance; the sentence read backwards gets the same answer.
C14_FlexibleOrder ==
    (pc = "rule_done" /\ ~ AnyOccurs(current_rule.regex_patterns, sentences))
        => /\ rule_result.flexible.result
                <=> FlexibleRun(CheckedWords, current_rule.keywords,
                                current_rule.max_distance)
           /\ ~ AnyOccurs(current_rule.regex_patterns, Reversed(sentences))
                => check_rules_any_order(Reversed(CheckedWords), Reversed(sentences),
                       current_rule.keywords, current_rule.max_distance,
                       current_rule.regex_patterns,
                       current_rule.regex_exclusion_patterns).result
                   = rule_result.flexible.result

C14_Witness ==
    /\ pc = "rule_done"
    /\ ~ AnyOccurs(current_rule.regex_patterns, sentences)
    /\ Len(current_rule.keywords) = 3
    /\ rule_result.flexible.result
    /\ ~ rule_result.strict.result
    /\ rule_result.flexible.logic = "flexible_order"

\* C15: when a pattern of regex_patterns matches the raw sentence and no
\* exclusion pattern does, both checks return (true, "regex"), whatever the
\* keyword positions are.
C15_RegexShortCircuit ==
    (/\ pc = "rule_done"
     /\ AnyOccurs(current_rule.regex_patterns, sentences)
     /\ ~ AnyOccurs(current_rule.regex_exclusion_patterns, sentences))
        => /\ rule_result.strict = [raised |-> FALSE, result |-> TRUE, logic |-> "regex"]
           /\ rule_result.flexible = [raised |-> FALSE, result |-> TRUE, logic |-> "regex"]

C15_Witness ==
    /\ pc = "rule_done"
    /\ AnyOccurs(current_rule.regex_patterns, sentences)
    /\ current_rule.regex_exclusion_patterns = <<>>
    /\ ~ StrictTuple(CheckedWords, current_rule.keywords, current_rule.max_distance)
    /\ ~ FlexibleRun(CheckedWords, current_rule.keywords, current_rule.max_distance)
    /\ rule_result.strict.result
    /\ rule_result.flexible.result

\* C16: when a pattern of regex_patterns and a pattern of
\* regex_exclusion_patterns both match the sentence, both checks return false,
\* also when the keywords alone would match.
C16_ExclusionOverrides ==
    (/\ pc = "rule_done"
     /\ AnyOccurs(current_rule.regex_patterns, sentences)
     /\ AnyOccurs(current_rule.regex_exclusion_patterns, sentences))
        => /\ ~ rule_result.strict.result
           /\ ~ rule_result.flexible.result
           /\ ~ rule_result.strict.raised
           /\ ~ rule_result.flexible.raised

C16_Witness ==
    /\ pc = "rule_done"
    /\ AnyOccurs(current_rule.regex_patterns, sentences)
    /\ AnyOccurs(current_rule.regex_exclusion_patterns, sentences)
    /\ StrictTuple(CheckedWords, current_rule.keywords, current_rule.max_distance)
    /\ FlexibleRun(CheckedWords, current_rule.keywords, current_rule.max_distance)
    /\ ~ rule_result.strict.result
    /\ ~ rule_result.flexible.result

---------------------------------------------------------------------------
(* The chunker of lambda_handler on its own: every text over ChunkAlphabet  *)
(* that lines 156-158 send to chunking                                      *)

ChunkAlphabet == {"CUSTOMER:", "AGENT:", "hola", " "}

InitChunk ==
    /\ pc = "chunker_call"
    /\ source_language \in Languages \ {"English"}
    /\ channel = "chat"
    /\ sentences \in {t \in SeqsUpTo(ChunkAlphabet, MaxChunkLen) :
                         NeedsChunking(t, get_language_code(source_language))}
    /\ attempt = 0
    /\ chunks = <<>>
    /\ futures = <<>>
    /\ completed = <<>>
    /\ translated_chunks = <<>>
    /\ sentences_to_flag = None
    /\ translation_service_used = "None"
    /\ flagged = FALSE
    /\ sentence_to_rule = <<>>
    /\ rd_total_time = "unbound"
    /\ output = <<>>
    /\ thread = "none"
    /\ timed_out = FALSE
    /\ fallback = [st |-> "none", res |-> None]
    /\ calls = <<>>
    /\ matched_text = None
    /\ logs = "none"
    /\ response = "none"
    /\ current_rule = NoRule
    /\ rule_result = NoResult

\* lines 165-197: the chunk list of one attempt
ChunkerCall ==
    /\ pc = "chunker_call"
    /\ attempt' = 1
    /\ chunks' = MakeChunks(sentences)
    /\ pc' = "chunker_done"
    /\ UNCHANGED <<sentences, source_language, channel, futures, completed,
                   translated_chunks, sentences_to_flag, translation_service_used,
                   flagged, sentence_to_rule, rd_total_time, output, thread,
                   timed_out, fallback, calls, matched_text, logs, response,
                   current_rule, rule_result>>

NextChunk == ChunkerCall

SpecChunk == InitChunk /\ [][NextChunk]_vars

---------------------------------------------------------------------------
(* Claims about the chunker (specification SpecChunk) *)

\* chunk i is the text from position starts[i], and no chunk starts before the
\* end of the one before it
InSourceOrder(text, chs) ==
    \E starts \in [1..Len(chs) -> 1..(Len(text) + 1)] :
        /\ \A i \in 1..Len(chs) :
              /\ starts[i] + Len(chs[i]) - 1 <= Len(text)
              /\ SubSeq(text, starts[i], starts[i] + Len(chs[i]) - 1) = chs[i]
        /\ \A i \in 1..(Len(chs) - 1) : starts[i] + Len(chs[i]) <= starts[i + 1]

\* C21: every chunk of a chunked text has at most split_threshold characters
\* and at least one that is not whitespace, and the chunks come in the order
\* of their positions in the text.
C21_ChunkShape ==
    pc = "chunker_done" =>
        /\ \A i \in 1..Len(chunks) :
              /\ Len(chunks[i]) <= split_threshold
              /\ \E k \in 1..Len(chunks[i]) : chunks[i][k] \notin Whitespace
        /\ InSourceOrder(sentences, chunks)

C21_Witness ==
    /\ pc = "chunker_done"
    /\ Len(chunks) = 2
    /\ Len(sentences) = 5
    /\ Len(chunks[1]) = split_threshold
    /\ chunks[1] # chunks[2]
    /\ \E k \in 1..Len(chunks[2]) : chunks[2][k] \in Whitespace

\* C29: before the whitespace-only chunks are dropped, the chunks put together
\* in list order are the text, wherever the split point falls.
C29_ChunksPartition ==
    pc = "chunker_done" => Flatten(RawChunks(sentences)) = sentences

C29_Witness ==
    /\ pc = "chunker_done"
    /\ ClosestIndex(sentences) = 0
    /\ Len(RawChunks(sentences)) > Len(chunks)
    /\ Len(chunks) >= 2
    /\ Flatten(chunks) # sentences

---------------------------------------------------------------------------
(* Further claims about check_rules and check_rules_any_order               *)
(* (specification SpecRules)                                                *)

\* one occurrence position for each keyword, all within max_distance
ChoiceWithin(words, keywords, max_distance) ==
    \E c \in [1..Len(keywords) -> 1..Len(words)] :
        /\ \A i \in 1..Len(keywords) : words[c[i]] = keywords[i]
        /\ \A i, j \in 1..Len(keywords) : c[j] - c[i] <= max_distance

\* C25: when check_rules_any_order returns (true, "flexible_order") there is
\* one occurrence position for each keyword of the rule such that the
\* positions all lie within max_distance of each other, also when a keyword
\* occurs several times in the sentence.
C25_FlexibleDistance ==
    (/\ pc = "rule_done"
     /\ rule_result.flexible.result
     /\ rule_result.flexible.logic = "flexible_order")
        => ChoiceWithin(CheckedWords, current_rule.keywords, current_rule.max_distance)

PairwiseDistinct(s) == \A i, j \in 1..Len(s) : i # j => s[i] # s[j]

\* C27: with no regex configured and pairwise distinct keywords, a sentence
\* that check_rules accepts is accepted by check_rules_any_order with the
\* same keywords and max_distance.
C27_StrictImpliesFlexible ==
    (/\ pc = "rule_done"
     /\ current_rule.regex_patterns = <<>>
     /\ current_rule.regex_exclusion_patterns = <<>>
     /\ PairwiseDistinct(current_rule.keywords)
     /\ rule_result.strict.result)
        => rule_result.flexible.result

C27_Witness ==
    /\ pc = "rule_done"
    /\ current_rule.regex_patterns = <<>>
    /\ current_rule.regex_exclusion_patterns = <<>>
    /\ PairwiseDistinct(current_rule.keywords)
    /\ Len(current_rule.keywords) = 3
    /\ Len(sentences) = 4
    /\ rule_result.strict = [raised |-> FALSE, result |-> TRUE, logic |-> "strict_order"]
    /\ rule_result.flexible = [raised |-> FALSE, result |-> TRUE, logic |-> "flexible_order"]

\* C28: check_rules and check_rules_any_order return a (boolean, kind) pair
\* for every sentence and every rule, and a rule with an empty keyword list
\* whose regex_patterns do not match the sentence gets false from both.
C28_Total ==
    pc = "rule_done" =>
        /\ ~ rule_result.strict.raised
        /\ ~ rule_result.flexible.raised

=============================================================================
